---- MODULE Spec2Model ----
(***************************************************************************)
(* The compile-cache-render pipeline of the template engine:               *)
(*   render / renderAsync            (string templates)                    *)
(*   renderFile / renderFileAsync / includeFile / loadFile (file templates)*)
(* over one process-wide template cache.  One action is one whole call.    *)
(***************************************************************************)
EXTENDS Naturals, Sequences, FiniteSets, TLC

VARIABLES
    templates,  \* the process-wide template cache: key -> template function
    serial,     \* number of compile() calls made so far (the compile-count spy)
    last        \* the record of the most recent call: its arguments and all it did

vars == <<templates, serial, last>>

\* Bound of the model: calls are issued while fewer than MaxCompiles
\* compilations have been made.
MaxCompiles == 2

(***************************************************************************)
(* JavaScript values                                                       *)
(***************************************************************************)
EmptyObj == [f \in {} |-> TRUE]

\* { ...a, ...b } / Object.assign({}, a, b) / copyProps(a, b)
Merge(a, b) ==
    [f \in (DOMAIN a) \cup (DOMAIN b) |-> IF f \in DOMAIN b THEN b[f] ELSE a[f]]

Undefined == [tag |-> "undefined"]
Obj(p) == [tag |-> "object", props |-> p]
\* a completion callback; throws = its body throws when it is handed a result
CbOk == [tag |-> "function", throws |-> FALSE]
CbThrows == [tag |-> "function", throws |-> TRUE]

\* the own enumerable properties of a value (a function or undefined has none)
PropsOf(v) == IF v.tag = "object" THEN v.props ELSE EmptyObj

\* the value of a string-valued property that may be absent
Absent == "<undefined>"
Prop(o, f) == IF f \in DOMAIN o THEN o[f] ELSE Absent
\* JavaScript truthiness of a string-or-undefined value
TruthyStr(s) == s # Absent /\ s # ""

\* template arguments and template functions
Str(s) == [tag |-> "string", src |-> s, id |-> 0]
Fn(s, n) == [tag |-> "function", src |-> s, id |-> n]
NoFn == [tag |-> "undefined", src |-> "", id |-> 0]
IsFn(v) == v.tag = "function"
\* a function the caller compiled beforehand and passes as the template
PreFn == Fn("pre", 0)

\* errors
Err(kind, path, wrapped) == [kind |-> kind, path |-> path, wrapped |-> wrapped]
NoErr == Err("none", "", FALSE)
CallbackError == Err("CallbackError", "", FALSE)
RenderKinds == {"ConfigResolution", "ReadFailure", "Compilation", "RenderFailure"}

\* rendered strings: which function produced it, from which data
Out(fn, data) == [tag |-> "string", fn |-> fn, data |-> data]
NoRes == [tag |-> "undefined", fn |-> NoFn, data |-> EmptyObj]

(***************************************************************************)
(* External collaborators: configuration, file system, compiler, cache     *)
(***************************************************************************)
\* the built-in default configuration
Defaults == [cache |-> FALSE, async |-> FALSE, views |-> "/views"]

\* getConfig(override, baseConfig): defaults < base < override, key by key
GetConfig(override, base) == Merge(Merge(Defaults, base), override)

\* the template files on disk, and the source text each holds
Files == {"/views/a.eta", "/views/b.eta", "/views/bad.eta", "/views/boom.eta",
          "/views/locked.eta", "/x/a.eta", "/y/a.eta"}
Unreadable == {"/views/locked.eta"}
FileSource(p) ==
    CASE p = "/views/a.eta" -> "good1"
      [] p = "/views/b.eta" -> "good2"
      [] p = "/views/bad.eta" -> "bad"
      [] p = "/views/boom.eta" -> "boom"
      [] p = "/x/a.eta" -> "good2"
      [] p = "/y/a.eta" -> "good1"
      [] OTHER -> ""

DirOf(p) ==
    CASE p \in {"/views/a.eta", "/views/b.eta", "/views/bad.eta",
                "/views/boom.eta", "/views/locked.eta"} -> "/views"
      [] p = "/x/a.eta" -> "/x"
      [] p = "/y/a.eta" -> "/y"
      [] OTHER -> Absent
IsAbsolute(p) == p \in Files \cup {"/views/gone.eta"}

\* getPath(path, options): the candidates in their fixed order, relative to
\* the parent file first, then the views root; the first that exists
Candidates(path, options) ==
    IF IsAbsolute(path) THEN <<path>>
    ELSE (IF TruthyStr(Prop(options, "filename"))
          THEN <<DirOf(options.filename) \o "/" \o path>> ELSE <<>>)
         \o (IF TruthyStr(Prop(options, "views"))
             THEN <<options.views \o "/" \o path>> ELSE <<>>)

GetPath(path, options) ==
    LET c == Candidates(path, options)
        found == {i \in 1..Len(c) : c[i] \in Files}
    IN  IF found = {}
        THEN [path |-> Absent, err |-> Err("ConfigResolution", path, FALSE)]
        ELSE [path |-> c[CHOOSE i \in found : \A j \in found : i <= j],
              err |-> NoErr]

\* readFile(path)
ReadFile(p) ==
    IF p \in Files \ Unreadable
    THEN [src |-> FileSource(p), err |-> NoErr]
    ELSE [src |-> "", err |-> Err("ReadFailure", p, FALSE)]

\* compile(source, config): the n-th call of the compiler yields function n
Compile(src, n) ==
    IF src = "bad"
    THEN [fn |-> NoFn, err |-> Err("Compilation", "", FALSE)]
    ELSE [fn |-> Fn(src, n), err |-> NoErr]

\* the cache: get(key), define(key, fn), reset()
Get(t, key) == IF key \in DOMAIN t THEN t[key] ELSE NoFn
Define(t, key, fn) == Merge(t, key :> fn)
NoTemplates == [k \in {} |-> NoFn]

\* a template function called with (data, options, cb)
Invoke(fn, data, options, cb) ==
    IF fn.src = "boom"
    THEN [err |-> Err("RenderFailure", "", FALSE), res |-> NoRes, cbCalls |-> <<>>]
    ELSE IF cb.tag = "function"
    THEN [err |-> IF cb.throws THEN CallbackError ELSE NoErr,
          res |-> Out(fn, data),
          cbCalls |-> <<[err |-> NoErr, res |-> Out(fn, data)]>>]
    ELSE [err |-> NoErr, res |-> Out(fn, data), cbCalls |-> <<>>]

(***************************************************************************)
(* What a call did.  h is what the cache-lookup step returned:             *)
(*   [fn, err, templates, serial, reads, compiles, trace]                  *)
(***************************************************************************)
Looked(fn, err, t, n, reads, compiles, trace) ==
    [fn |-> fn, err |-> err, templates |-> t, serial |-> n,
     reads |-> reads, compiles |-> compiles, trace |-> trace]

Base(h) ==
    [fn |-> h.fn, invoked |-> FALSE, ret |-> "undefined", val |-> NoRes,
     thrown |-> NoErr, promise |-> "none", pval |-> NoRes, perr |-> NoErr,
     cbCalls |-> <<>>, reads |-> h.reads, compiles |-> h.compiles,
     trace |-> h.trace, templates |-> h.templates, serial |-> h.serial]

CbErr(e) == [err |-> e, res |-> NoRes]

(***************************************************************************)
(* String templates                                                        *)
(***************************************************************************)
\* mutant: the string renderer never uses the cache
KeyedStr_Never(options) == FALSE

\* mutant: the string renderer registers under a name with caching disabled too
KeyedStr_NameOnly(options) == TruthyStr(Prop(options, "name"))

\* options.cache && options.name
KeyedStr(options) == options.cache /\ TruthyStr(Prop(options, "name"))

\* mutant: the string renderer never finds its key in the cache
HitStr_Never(options, t) == FALSE

\* mutant: the string renderer looks the name up with caching disabled too
HitStr_IgnoresFlag(options, t) ==
    TruthyStr(Prop(options, "name")) /\ IsFn(Get(t, options.name))

\* options.cache && options.name && options.templates.get(options.name)
HitStr(options, t) == KeyedStr(options) /\ IsFn(Get(t, options.name))

\* handleCache(template, options) of the string renderer
HandleCacheStr(template, options, t, n) ==
    LET name == Prop(options, "name")
        keyed == KeyedStr(options)
        looked == IF keyed THEN <<"get">> ELSE <<>>
    IN  IF HitStr(options, t)
        THEN Looked(Get(t, name), NoErr, t, n, 0, 0, looked)
        ELSE IF template.tag = "function"
        THEN Looked(template, NoErr,
                    IF keyed THEN Define(t, name, template) ELSE t,
                    n, 0, 0,
                    looked \o (IF keyed THEN <<"define">> ELSE <<>>))
        ELSE LET c == Compile(template.src, n + 1)
             IN  IF c.err # NoErr
                 THEN Looked(NoFn, c.err, t, n + 1, 0, 1, looked \o <<"compile">>)
                 ELSE Looked(c.fn, NoErr,
                             IF keyed THEN Define(t, name, c.fn) ELSE t,
                             n + 1, 0, 1,
                             looked \o <<"compile">>
                                    \o (IF keyed THEN <<"define">> ELSE <<>>))

\* mutant: render takes the asynchronous branches whatever options.async is
RenderMode_AlwaysAsync(options, cb) ==
    IF cb.tag = "function" THEN "callback" ELSE "promise"

\* which branch render takes: if (options.async) { if (cb) .. else .. } else ..
RenderMode(options, cb) ==
    IF options.async
    THEN IF cb.tag = "function" THEN "callback" ELSE "promise"
    ELSE "sync"

\* catch (err) { return cb(err) }, after the callback was called as `calls` says
CatchStr(b, calls, e) == [b EXCEPT !.cbCalls = calls \o <<CbErr(e)>>]

\* render(template, data, config, cb), given the resolved options
RenderWith(template, data, options, cb, t, n) ==
    LET mode == RenderMode(options, cb)
        h == HandleCacheStr(template, options, t, n)
        x == Invoke(h.fn, data, options,
                    IF mode = "callback" THEN cb ELSE Undefined)
        b == [Base(h) EXCEPT !.trace = <<"getConfig">> \o @]
        i == [b EXCEPT !.invoked = TRUE, !.trace = @ \o <<"invoke">>]
    IN  IF mode = "callback"
        THEN \* try { handleCache(..)(data, options, cb) } catch { return cb(err) }
             IF h.err # NoErr
             THEN CatchStr(b, <<>>, h.err)
             ELSE IF x.err # NoErr
             THEN CatchStr(i, x.cbCalls, x.err)
             ELSE [i EXCEPT !.cbCalls = x.cbCalls]
        ELSE IF mode = "promise"
        THEN \* new Promise(resolve(handleCache(..)(data, options)) / reject(err))
             IF h.err # NoErr
             THEN [b EXCEPT !.ret = "promise", !.promise = "rejected",
                            !.perr = h.err]
             ELSE IF x.err # NoErr
             THEN [i EXCEPT !.ret = "promise", !.promise = "rejected",
                            !.perr = x.err]
             ELSE [i EXCEPT !.ret = "promise", !.promise = "resolved",
                            !.pval = x.res]
        ELSE \* return handleCache(template, options)(data, options)
             IF h.err # NoErr
             THEN [b EXCEPT !.ret = "throw", !.thrown = h.err]
             ELSE IF x.err # NoErr
             THEN [i EXCEPT !.ret = "throw", !.thrown = x.err]
             ELSE [i EXCEPT !.ret = "string", !.val = x.res]

\* the arguments and the effective configuration, attached to what the call did
Args(op, template, file, data, config, cb, options, parent) ==
    [op |-> op, tmpl |-> template, file |-> file, data |-> data,
     config |-> config, cb |-> cb, options |-> options, parent |-> parent]

NoTmpl == [tag |-> "undefined", src |-> "", id |-> 0]

Render(template, data, config, cb, t, n) ==
    LET options == GetConfig(PropsOf(config), EmptyObj)
    IN  Merge(Args("render", template, "", data, config, cb, options, EmptyObj),
              RenderWith(template, data, options, cb, t, n))

RenderAsync(template, data, config, cb, t, n) ==
    [Render(template, data,
            Obj(Merge(PropsOf(config), [async |-> TRUE])), cb, t, n)
        EXCEPT !.op = "renderAsync", !.config = config]

(***************************************************************************)
(* File templates                                                          *)
(***************************************************************************)
\* mutant: loadFile registers what it compiled even when told not to
ShouldDefine_Always(noCache) == TRUE

\* mutant: loadFile never registers what it compiled
ShouldDefine_Never(noCache) == FALSE

\* if (!noCache) { config.templates.define(..) }
ShouldDefine(noCache) == ~noCache

\* mutant: loadFile lets the compiler's error through as it is
EtaErr_Bare(filePath, e) == e

\* EtaErr("Loading file: " + filePath + " failed:\n\n" + e.message)
EtaErr(filePath, e) == Err(e.kind, filePath, TRUE)

\* loadFile(filePath, options, noCache)
LoadFile(filePath, options, noCache, t, n) ==
    LET config == GetConfig(options, EmptyObj)
        r == ReadFile(filePath)
        c == Compile(r.src, n + 1)
    IN  IF r.err # NoErr
        THEN Looked(NoFn, r.err, t, n, 1, 0, <<"getConfig", "readFile">>)
        ELSE IF c.err # NoErr
        THEN \* catch (e) { throw EtaErr(..) }
             Looked(NoFn, EtaErr(filePath, c.err), t, n + 1, 1, 1,
                    <<"getConfig", "readFile", "compile">>)
        ELSE IF ShouldDefine(noCache)
        THEN Looked(c.fn, NoErr, Define(t, Prop(config, "filename"), c.fn),
                    n + 1, 1, 1,
                    <<"getConfig", "readFile", "compile", "define">>)
        ELSE Looked(c.fn, NoErr, t, n + 1, 1, 1,
                    <<"getConfig", "readFile", "compile">>)

\* mutant: the file renderer never finds its filename in the cache
HitFile_Never(options, t) == FALSE

\* if (options.cache) { const func = options.templates.get(filename); if (func) ..
HitFile(options, t) == options.cache /\ IsFn(Get(t, options.filename))

\* handleCache(options) of the file renderer
HandleCacheFile(options, t, n) ==
    LET filename == options.filename
        l == LoadFile(filename, options, ~options.cache, t, n)
    IN  IF HitFile(options, t)
        THEN Looked(Get(t, filename), NoErr, t, n, 0, 0, <<"get">>)
        ELSE IF options.cache
        THEN [l EXCEPT !.trace = <<"get">> \o @]
        ELSE l

\* which branch tryHandleCache takes: if (cb) .. else ..
FileMode(cb) == IF cb.tag = "function" THEN "callback" ELSE "promise"

\* mutant: the catch block of tryHandleCache swallows the error
CatchFile_Swallows(b, calls, e) == [b EXCEPT !.cbCalls = calls]

\* catch (err) { return cb(err) }, after the callback was called as `calls` says
CatchFile(b, calls, e) == [b EXCEPT !.cbCalls = calls \o <<CbErr(e)>>]

\* tryHandleCache(data, options, cb)
TryHandleCache(data, options, cb, t, n) ==
    LET h == HandleCacheFile(options, t, n)
        x == Invoke(h.fn, data, options, cb)
        b == Base(h)
        i == [b EXCEPT !.invoked = TRUE, !.trace = @ \o <<"invoke">>]
    IN  IF FileMode(cb) = "callback"
        THEN IF h.err # NoErr
             THEN CatchFile(b, <<>>, h.err)
             ELSE IF x.err # NoErr
             THEN CatchFile(i, x.cbCalls, x.err)
             ELSE [i EXCEPT !.cbCalls = x.cbCalls]
        ELSE IF h.err # NoErr
             THEN [b EXCEPT !.ret = "promise", !.promise = "rejected",
                            !.perr = h.err]
             ELSE IF x.err # NoErr
             THEN [i EXCEPT !.ret = "promise", !.promise = "rejected",
                            !.perr = x.err]
             ELSE [i EXCEPT !.ret = "promise", !.promise = "resolved",
                            !.pval = x.res]

\* a call that threw before it looked anything up
Threw(e, t, n, trace) ==
    [Base(Looked(NoFn, NoErr, t, n, 0, 0, trace))
        EXCEPT !.ret = "throw", !.thrown = e]

\* mutant: in the new options the parent's own filename wins over the
\* included file's
NewFileOptions_ParentWins(path, options) ==
    GetConfig(options, [filename |-> GetPath(path, options).path])

\* mutant: the included path is resolved against the views root only, not
\* against the parent file
NewFileOptions_ViewsOnly(path, options) ==
    GetConfig([filename |-> GetPath(path, [views |-> Prop(options, "views")]).path],
              options)

\* getConfig({ filename: getPath(path, options) }, options)
NewFileOptions(path, options) ==
    GetConfig([filename |-> GetPath(path, options).path], options)

\* includeFile(path, options)
IncludeFile(path, options, t, n) ==
    LET p == GetPath(path, options)
        newFileOptions == NewFileOptions(path, options)
        h == HandleCacheFile(newFileOptions, t, n)
        b == [Base(h) EXCEPT !.trace = <<"getPath", "getConfig">> \o @]
    IN  IF p.err # NoErr
        THEN Merge(Args("includeFile", NoTmpl, path, EmptyObj, Undefined,
                        Undefined, options, options),
                   Threw(p.err, t, n, <<"getPath">>))
        ELSE Merge(Args("includeFile", NoTmpl, path, EmptyObj, Undefined,
                        Undefined, newFileOptions, options),
                   IF h.err # NoErr
                   THEN [b EXCEPT !.ret = "throw", !.thrown = h.err]
                   ELSE [b EXCEPT !.ret = "pair"])

\* the configuration renderFile builds when no configuration object is passed:
\* the data object, then what data.settings holds
FromSettings(data) ==
    LET c0 == GetConfig(data, EmptyObj)
        s == IF "settings" \in DOMAIN data THEN data.settings ELSE EmptyObj
        c1 == IF TruthyStr(Prop(s, "views"))
              THEN Merge(c0, [views |-> s.views]) ELSE c0
        c2 == IF "view cache" \in DOMAIN s /\ s["view cache"]
              THEN Merge(c1, [cache |-> TRUE]) ELSE c1
    IN  IF "view options" \in DOMAIN s THEN Merge(c2, s["view options"]) ELSE c2

\* mutant: renderFile takes its callback from the fourth argument only
Callback_FourthOnly(config, cb) == IF cb.tag = "function" THEN cb ELSE Undefined

\* if (typeof cb === "function") callback = cb
\* else if (typeof config === "function") callback = config
Callback(config, cb) ==
    IF cb.tag = "function" THEN cb
    ELSE IF config.tag = "function" THEN config
    ELSE Undefined

\* mutant: renderFile reads data.settings also when a configuration is passed
RenderConfig_SettingsToo(data, config) ==
    Merge(IF config.tag = "object" THEN GetConfig(config.props, EmptyObj)
          ELSE EmptyObj,
          FromSettings(data))

\* if (typeof config === "object") renderConfig = getConfig(config)
\* else renderConfig = getConfig(data), then what data.settings holds
RenderConfig(data, config) ==
    IF config.tag = "object"
    THEN GetConfig(config.props, EmptyObj)
    ELSE FromSettings(data)

\* renderFile(filename, data, config, cb)
RenderFile(filename, data, config, cb, t, n) ==
    LET callback == Callback(config, cb)
        renderConfig == RenderConfig(data, config)
        p == GetPath(filename, renderConfig)
        options == Merge(renderConfig, [filename |-> p.path])
    IN  IF p.err # NoErr
        THEN Merge(Args("renderFile", NoTmpl, filename, data, config, cb,
                        renderConfig, EmptyObj),
                   Threw(p.err, t, n, <<"getConfig", "getPath">>))
        ELSE Merge(Args("renderFile", NoTmpl, filename, data, config, cb,
                        options, EmptyObj),
                   [TryHandleCache(data, options, callback, t, n)
                        EXCEPT !.trace = <<"getConfig", "getPath">> \o @])

\* renderFileAsync(filename, data, config, cb)
RenderFileAsync(filename, data, config, cb, t, n) ==
    [RenderFile(filename,
                IF config.tag = "function"
                THEN Merge(data, [async |-> TRUE]) ELSE data,
                IF config.tag = "object"
                THEN Obj(Merge(config.props, [async |-> TRUE])) ELSE config,
                cb, t, n)
        EXCEPT !.op = "renderFileAsync", !.data = data, !.config = config]

(***************************************************************************)
(* The arguments the calls are issued with                                 *)
(***************************************************************************)
Templates == {Str("good1"), Str("good2"), Str("bad"), Str("boom"), PreFn}

\* render: the <<config, cb>> pairs
RenderObjs ==
    {Obj([cache |-> FALSE, async |-> a]) : a \in BOOLEAN}
    \cup {Obj([cache |-> TRUE, name |-> "k1", async |-> a]) : a \in BOOLEAN}
    \cup {Obj([cache |-> FALSE, name |-> "k1"]),
          Obj([cache |-> TRUE, filename |-> "/views/a.eta"]),
          Obj([cache |-> TRUE, name |-> "/views/a.eta"])}
RenderArgs ==
    {<<Undefined, Undefined>>, <<Undefined, CbOk>>, <<CbOk, Undefined>>,
     <<Obj([cache |-> FALSE, async |-> TRUE]), CbThrows>>}
    \cup (RenderObjs \X {Undefined})
    \cup ({c \in RenderObjs : "async" \in DOMAIN c.props /\ c.props.async}
            \X {CbOk})
RenderData == {[user |-> "Ada"]}

\* renderAsync: one pair of each argument shape
RenderAsyncTemplates == {Str("good1"), Str("bad"), Str("boom")}
RenderAsyncArgs ==
    {<<Undefined, Undefined>>, <<Undefined, CbOk>>, <<CbOk, Undefined>>,
     <<Obj([cache |-> TRUE, name |-> "k1"]), Undefined>>,
     <<Obj([cache |-> TRUE, name |-> "k1"]), CbOk>>,
     <<Obj(EmptyObj), CbThrows>>}

\* renderFile: the <<data, config, cb>> triples
FileNames == {"a.eta", "/views/bad.eta", "/views/boom.eta",
              "/views/locked.eta", "missing.eta"}
Settings(s) == [settings |-> s]
FileData ==
    {EmptyObj, [cache |-> TRUE],
     Settings([views |-> "/x"]),
     Settings("view cache" :> TRUE),
     Settings("view options" :> [cache |-> TRUE, views |-> "/x"])}
FileArgs ==
    (FileData \X {Undefined} \X {Undefined})
    \cup ({EmptyObj, [cache |-> TRUE]} \X {Undefined} \X {CbOk})
    \cup ({EmptyObj, [cache |-> TRUE]} \X {CbOk} \X {Undefined})
    \cup {<<EmptyObj, Undefined, CbThrows>>}
    \cup ({EmptyObj, Settings([views |-> "/x"])}
            \X {Obj(EmptyObj), Obj([views |-> "/y"])} \X {Undefined})
    \cup ({EmptyObj} \X {Obj(EmptyObj), Obj([cache |-> TRUE])} \X {CbOk})
    \cup {<<EmptyObj, Obj([cache |-> TRUE]), Undefined>>,
          <<EmptyObj, Obj([async |-> TRUE]), Undefined>>}

\* renderFileAsync: one triple of each argument shape
FileAsyncNames == {"a.eta", "/views/boom.eta", "missing.eta"}
FileAsyncArgs ==
    {<<EmptyObj, Undefined, Undefined>>, <<EmptyObj, Obj(EmptyObj), Undefined>>,
     <<EmptyObj, CbOk, Undefined>>, <<EmptyObj, Obj(EmptyObj), CbOk>>,
     <<EmptyObj, Undefined, CbOk>>}

IncludePaths == {"a.eta", "b.eta", "missing.eta"}
LoadPaths == {"/views/a.eta", "/views/bad.eta", "/views/locked.eta"}

(***************************************************************************)
(* The state machine                                                       *)
(***************************************************************************)
\* the fields of a call record that are not the shared state
Record(r) == [f \in (DOMAIN r) \ {"templates", "serial"} |-> r[f]]

Commit(r) ==
    /\ templates' = r.templates
    /\ serial' = r.serial
    /\ last' = Record(r)

Init ==
    /\ templates = NoTemplates
    /\ serial = 0
    /\ last = Record(Merge(Args("init", NoTmpl, "", EmptyObj, Undefined, Undefined,
                                EmptyObj, EmptyObj),
                           Threw(NoErr, NoTemplates, 0, <<>>)))

DoRender ==
    /\ serial < MaxCompiles
    /\ \E tm \in Templates, d \in RenderData, a \in RenderArgs :
           Commit(Render(tm, d, a[1], a[2], templates, serial))

DoRenderAsync ==
    /\ serial < MaxCompiles
    /\ \E tm \in RenderAsyncTemplates, d \in RenderData, a \in RenderAsyncArgs :
           Commit(RenderAsync(tm, d, a[1], a[2], templates, serial))

DoRenderFile ==
    /\ serial < MaxCompiles
    /\ \E f \in FileNames, a \in FileArgs :
           Commit(RenderFile(f, a[1], a[2], a[3], templates, serial))

DoRenderFileAsync ==
    /\ serial < MaxCompiles
    /\ \E f \in FileAsyncNames, a \in FileAsyncArgs :
           Commit(RenderFileAsync(f, a[1], a[2], a[3], templates, serial))

\* an include issued by a template function, with the options it was called with
DoIncludeFile ==
    /\ serial < MaxCompiles
    /\ last.invoked \/ last.ret = "pair"
    /\ \E p \in IncludePaths :
           Commit(IncludeFile(p, last.options, templates, serial))

\* a direct call of loadFile
DoLoadFile ==
    /\ serial < MaxCompiles
    /\ \E f \in LoadPaths, c \in BOOLEAN, noCache \in BOOLEAN :
           LET options == [filename |-> f, cache |-> c]
               h == LoadFile(f, options, noCache, templates, serial)
           IN  Commit(Merge(Args("loadFile", NoTmpl, f, EmptyObj, Undefined,
                                 Undefined, GetConfig(options, EmptyObj),
                                 [noCache |-> noCache]),
                            IF h.err # NoErr
                            THEN [Base(h) EXCEPT !.ret = "throw", !.thrown = h.err]
                            ELSE [Base(h) EXCEPT !.ret = "function"]))

\* templates.reset()
DoReset ==
    /\ templates # NoTemplates
    /\ Commit(Merge(Args("reset", NoTmpl, "", EmptyObj, Undefined, Undefined,
                         EmptyObj, EmptyObj),
                    Threw(NoErr, NoTemplates, serial, <<>>)))

Next ==
    \/ DoRender
    \/ DoRenderAsync
    \/ DoRenderFile
    \/ DoRenderFileAsync
    \/ DoIncludeFile
    \/ DoLoadFile
    \/ DoReset

Spec == Init /\ [][Next]_vars

(***************************************************************************)
(* Properties                                                              *)
(***************************************************************************)
StrOps == {"render", "renderAsync"}
FileOps == {"renderFile", "renderFileAsync"}

\* a string call keyed by a name, with caching on
KeyedStrCall(r) == r.op \in StrOps /\ KeyedStr(r.options)
\* a file call that resolved its path
ResolvedFileCall(r) == r.op \in FileOps /\ r.thrown.kind # "ConfigResolution"

\* the rendered string a call handed to its caller, by whichever channel
Delivered(r) ==
    IF r.ret = "string" THEN r.val
    ELSE IF r.promise = "resolved" THEN r.pval
    ELSE IF r.cbCalls # <<>> /\ r.cbCalls[1].err = NoErr THEN r.cbCalls[1].res
    ELSE NoRes

\* C1: render with caching on and a name K: when a call got its function
\* (compiled from its source, as a rule) and the next call uses the same K,
\* the next call invokes the function of the first one, compiles nothing, and
\* what it delivers was rendered by that function, whatever source the next
\* call was given.
C1_CacheHitIgnoresSource ==
    [][ ( /\ KeyedStrCall(last) /\ IsFn(last.fn)
          /\ KeyedStrCall(last')
          /\ last'.options.name = last.options.name )
        => ( /\ last'.fn = last.fn
             /\ last'.invoked
             /\ last'.compiles = 0
             /\ serial' = serial
             /\ Delivered(last') # NoRes => Delivered(last').fn = last.fn ) ]_vars

\* a render under the name k1 served by a function compiled from another source
C1_Witness ==
    /\ last.op = "render" /\ KeyedStrCall(last) /\ last.options.name = "k1"
    /\ last.tmpl.tag = "string" /\ last.tmpl.src = "good2"
    /\ last.fn.src = "good1" /\ last.compiles = 0
    /\ last.ret = "string" /\ last.val.fn = last.fn

\* C2: renderFile with caching on: when a call loaded the file from disk and
\* the next call resolves the same filename, the two calls together read the
\* file once and compile once, and the next call invokes the same function.
C2_FileReadOnce ==
    [][ ( /\ ResolvedFileCall(last) /\ last.options.cache
          /\ last.reads = 1 /\ IsFn(last.fn)
          /\ ResolvedFileCall(last') /\ last'.options.cache
          /\ last'.options.filename = last.options.filename )
        => ( /\ last.reads + last'.reads = 1
             /\ last.compiles + last'.compiles = 1
             /\ last'.fn = last.fn
             /\ last.invoked /\ last'.invoked
             /\ serial' = serial ) ]_vars

\* a cached renderFile of /views/a.eta that read and compiled nothing
C2_Witness ==
    /\ last.op = "renderFile" /\ last.options.cache
    /\ ResolvedFileCall(last) /\ last.options.filename = "/views/a.eta"
    /\ last.reads = 0 /\ last.compiles = 0 /\ last.invoked
    /\ last.promise = "resolved" /\ last.pval.fn = templates["/views/a.eta"]

\* a call with caching off that gets as far as the compiler: a string
\* template, or a file that resolved and can be read
UncachedCompileCall(r) ==
    \/ r.op \in StrOps /\ ~r.options.cache /\ r.tmpl.tag = "string"
    \/ /\ ResolvedFileCall(r) /\ ~r.options.cache
       /\ ReadFile(r.options.filename).err = NoErr
\* the key a call would be cached under
KeyOf(r) == IF r.op \in StrOps THEN Prop(r.options, "name") ELSE r.options.filename

\* C3: with caching off every render compiles once more, also when its key is
\* registered: the compile count goes up by one per call and the function
\* invoked is the freshly compiled one, not the registered one.
C3_UncachedCompilesEachTime ==
    [][ UncachedCompileCall(last')
        => ( /\ serial' = serial + 1
             /\ last'.compiles = 1
             /\ IsFn(last'.fn) => /\ last'.fn.id = serial'
                                  /\ last'.fn # Get(templates, KeyOf(last')) ) ]_vars

\* an uncached render under a registered name, served by a fresh compilation
C3_Witness ==
    /\ last.op = "render" /\ ~last.options.cache
    /\ Prop(last.options, "name") = "k1" /\ "k1" \in DOMAIN templates
    /\ last.compiles = 1 /\ last.invoked /\ last.fn # templates["k1"]
    /\ serial = 2

\* C4: no render, renderFile or includeFile call removes or re-maps a
\* registered key.
C4_RegisteredStays ==
    [][ last'.op \in StrOps \cup FileOps \cup {"includeFile"}
        => \A k \in DOMAIN templates :
               k \in DOMAIN templates' /\ templates'[k] = templates[k] ]_vars

\* a cached render handed a precompiled function under a name that is already
\* registered: the registered function is used and stays registered
C4_Witness ==
    /\ last.op = "render" /\ KeyedStrCall(last) /\ last.tmpl = PreFn
    /\ last.fn # PreFn /\ templates[last.options.name] = last.fn

\* a call made in callback form: render with async on and a callback as fourth
\* argument, or renderFile with a callback as third or fourth argument
CallbackOf(r) ==
    IF r.op \in StrOps
    THEN (IF r.options.async THEN r.cb ELSE Undefined)
    ELSE IF r.op \in FileOps
    THEN (IF r.cb.tag = "function" THEN r.cb
          ELSE IF r.config.tag = "function" THEN r.config ELSE Undefined)
    ELSE Undefined
CallbackForm(r) == CallbackOf(r).tag = "function"
\* a call made in promise form: render with async on and no callback, or
\* renderFile with no callback
PromiseCall(r) ==
    \/ r.op \in StrOps /\ r.options.async /\ r.cb.tag # "function"
    \/ r.op \in FileOps /\ ~CallbackForm(r)

\* the same call made in promise form: the same arguments without the callback
PromiseForm(r, t, n) ==
    IF r.op = "render" THEN Render(r.tmpl, r.data, r.config, Undefined, t, n)
    ELSE IF r.op = "renderAsync"
    THEN RenderAsync(r.tmpl, r.data, r.config, Undefined, t, n)
    ELSE RenderFile(r.file, r.data,
                    IF r.config.tag = "object" THEN r.config ELSE Undefined,
                    Undefined, t, n)

\* what the callback was handed
CbResults(r) == {r.cbCalls[i].res : i \in {j \in DOMAIN r.cbCalls : r.cbCalls[j].err = NoErr}}
CbErrors(r) ==
    {r.cbCalls[i].err : i \in {j \in DOMAIN r.cbCalls : r.cbCalls[j].err.kind \in RenderKinds}}

\* what the callback of a call got, and what the call threw
CallbackOutcome(r) ==
    [results |-> CbResults(r), errors |-> CbErrors(r), thrown |-> r.thrown]
\* what the promise of a call settled with, and what the call threw
PromiseOutcome(p) ==
    [results |-> IF p.promise = "resolved" THEN {p.pval} ELSE {},
     errors |-> IF p.promise = "rejected" THEN {p.perr} ELSE {},
     thrown |-> p.thrown]

SyncDelivery(r) ==
    /\ r.ret \in {"string", "throw"}
    /\ r.promise = "none"
    /\ r.cbCalls = <<>>
    /\ r.ret = "string" => r.invoked /\ r.val = Out(r.fn, r.data)
    /\ r.ret = "throw" => r.thrown # NoErr

\* C6 as stated: with async off both render and renderFile return the string
\* directly or throw, with no promise and no callback.
C6_BothEntryPointsSync ==
    (last.op \in StrOps \cup FileOps /\ ~last.options.async) => SyncDelivery(last)

\* C6 amended: with async off render returns the string directly or throws,
\* with no promise and no callback; renderFile never returns the string
\* directly: once the path is resolved it hands the outcome to the callback
\* when it has one and returns a promise otherwise, and only a
\* path-resolution error is thrown.
C6_RenderSyncFileNever ==
    /\ (last.op \in StrOps /\ ~last.options.async) => SyncDelivery(last)
    /\ (last.op \in FileOps /\ ~last.options.async)
       => /\ last.ret # "string"
          /\ last.ret = "throw" => last.thrown.kind = "ConfigResolution"
          /\ last.ret # "throw"
             => IF CallbackForm(last)
                THEN /\ last.ret = "undefined" /\ last.promise = "none"
                     /\ last.cbCalls # <<>>
                ELSE /\ last.ret = "promise" /\ last.cbCalls = <<>>
                     /\ last.promise \in {"resolved", "rejected"}

\* a renderFile with async off that returned a promise of the rendered string
C6_Witness ==
    /\ last.op = "renderFile" /\ ~last.options.async
    /\ last.cb = Undefined /\ last.config = Obj(EmptyObj)
    /\ last.ret = "promise" /\ last.promise = "resolved"
    /\ last.pval = Out(last.fn, last.data)

\* C7: a call in callback form never throws to its caller (every error goes
\* to the callback, as its first argument and with no result).
C7_CallbackFormNeverThrows ==
    CallbackForm(last)
    => /\ last.ret # "throw"
       /\ last.thrown = NoErr
       /\ \A i \in DOMAIN last.cbCalls :
              last.cbCalls[i].err # NoErr => last.cbCalls[i].res = NoRes

\* C8: a call in promise form always returns a promise, which is rejected
\* with the error or resolved with the rendered string; nothing is thrown.
C8_PromiseFormAlwaysPromise ==
    PromiseCall(last)
    => /\ last.ret = "promise"
       /\ last.thrown = NoErr
       /\ last.promise = "rejected" => last.perr.kind \in RenderKinds
       /\ last.promise = "resolved" => last.pval = Out(last.fn, last.data)

\* what a call did, as its caller and the cache see it
Seen(r) ==
    [ret |-> r.ret, thrown |-> r.thrown, promise |-> r.promise, perr |-> r.perr,
     fn |-> r.fn, invoked |-> r.invoked, calls |-> Len(r.cbCalls),
     trace |-> r.trace, templates |-> r.templates, serial |-> r.serial]
Now(r, t, n) == Seen(Merge(r, [templates |-> t, serial |-> n]))

\* C9: renderAsync and renderFileAsync do what render and renderFile do with
\* the same arguments, under an effective configuration that has async true.
C9_AsyncVariantsForceAsync ==
    [][ /\ last'.op = "renderAsync"
           => LET o == Merge(GetConfig(PropsOf(last'.config), EmptyObj),
                             [async |-> TRUE])
                  e == RenderWith(last'.tmpl, last'.data, o, last'.cb,
                                  templates, serial)
              IN  /\ last'.options = o
                  /\ Now(last', templates', serial') = Seen(e)
        /\ last'.op = "renderFileAsync"
           => LET e == RenderFile(last'.file, last'.data, last'.config, last'.cb,
                                  templates, serial)
              IN  /\ last'.options = Merge(e.options, [async |-> TRUE])
                  /\ Now(last', templates', serial') = Seen(e) ]_vars

\* C10: a cached render whose config has a name or a filename uses a function
\* that is registered under that key once the call is over.
C10_NameOrFilenameCaches ==
    ( /\ last.op \in StrOps /\ last.options.cache /\ IsFn(last.fn)
      /\ \/ TruthyStr(Prop(last.options, "name"))
         \/ TruthyStr(Prop(last.options, "filename")) )
    => Get(templates,
           IF TruthyStr(Prop(last.options, "name"))
           THEN last.options.name ELSE last.options.filename) = last.fn

\* a configuration without its filename
Unnamed(options) == [f \in (DOMAIN options) \ {"filename"} |-> options[f]]

\* C11: in renderFile an explicitly passed configuration object decides the
\* effective configuration alone: it is the defaults overridden by that
\* object, key by key, whatever data.settings holds; so with
\* data = {settings: {views: "/x"}} and config = {views: "/y"} the views
\* root is "/y".
C11_ExplicitConfigWins ==
    (last.op = "renderFile" /\ last.config.tag = "object")
    => /\ Unnamed(last.options) = GetConfig(last.config.props, EmptyObj)
       /\ \A f \in DOMAIN last.config.props :
              last.options[f] = last.config.props[f]
       /\ "views" \notin DOMAIN last.config.props
          => last.options.views = Defaults.views

\* the renderFile of the claim's example, which resolved a.eta under /y
C11_Witness ==
    /\ last.op = "renderFile"
    /\ last.data = Settings([views |-> "/x"])
    /\ last.config = Obj([views |-> "/y"])
    /\ last.options.views = "/y"
    /\ last.options.filename = "/y/a.eta"
    /\ last.promise = "resolved"

\* what the asynchronous variants add to the configuration
Forced(op) ==
    IF op \in {"renderAsync", "renderFileAsync"} THEN [async |-> TRUE] ELSE EmptyObj
\* the effective configuration an object passed as third argument stands for
FromObject(r) == GetConfig(Merge(r.config.props, Forced(r.op)), EmptyObj)
\* the callback was called, first with the result or with a render error
CalledBack(r) ==
    /\ r.cbCalls # <<>>
    /\ \/ /\ r.cbCalls[1].err = NoErr /\ r.cbCalls[1].res.tag = "string"
          /\ r.cbCalls[1].res.fn = r.fn
       \/ r.cbCalls[1].err.kind \in RenderKinds /\ r.cbCalls[1].res = NoRes

C13_UncachedLeavesCache ==
    [][ ( /\ last'.op \in StrOps \cup FileOps \cup {"includeFile"}
          /\ ~last'.options.cache )
        => templates' = templates ]_vars

\* an uncached renderFile of a registered file, served by a fresh compilation
\* while the registered function stays
C13_Witness ==
    /\ last.op = "renderFile" /\ ~last.options.cache
    /\ last.promise = "resolved"
    /\ last.options.filename \in DOMAIN templates
    /\ templates[last.options.filename] # last.fn

\* C14: loadFile registers the function it compiled under the filename
\* exactly when the configuration has caching enabled and skipCache is false;
\* with caching disabled in the configuration it leaves the cache as it was.
C14_LoadFileRegistersIffCaching ==
    [][ last'.op = "loadFile"
        => /\ IsFn(last'.fn)
              => ( Get(templates', last'.file) = last'.fn
                   <=> (last'.options.cache /\ ~last'.parent.noCache) )
           /\ ~last'.options.cache => templates' = templates ]_vars

\* the error a call reported, by whichever channel
ErrorOf(r) ==
    IF r.ret = "throw" THEN r.thrown
    ELSE IF r.promise = "rejected" THEN r.perr
    ELSE IF r.cbCalls # <<>> THEN r.cbCalls[1].err
    ELSE NoErr
\* a call in which loadFile read the file and the compiler failed
CompileFailed(r) ==
    /\ r.op \in FileOps \cup {"includeFile", "loadFile"}
    /\ r.reads = 1 /\ r.compiles = 1 /\ ~IsFn(r.fn)

\* C15: when compilation fails inside loadFile, whoever called it, the error
\* reported is one template error that carries the file path and the
\* compiler's error, it is reported once, and the cache is left as it was.
C15_CompileFailureWrapped ==
    [][ CompileFailed(last')
        => /\ ErrorOf(last')
                = [kind |-> "Compilation", path |-> last'.options.filename,
                   wrapped |-> TRUE]
           /\ Len(last'.cbCalls) <= 1
           /\ ~last'.invoked
           /\ templates' = templates ]_vars

\* a direct loadFile of a file that does not compile, with a cache that
\* holds an entry
C15_Witness ==
    /\ last.op = "loadFile" /\ last.file = "/views/bad.eta"
    /\ last.ret = "throw" /\ last.thrown.wrapped
    /\ last.thrown.path = "/views/bad.eta"
    /\ templates # NoTemplates /\ "/views/bad.eta" \notin DOMAIN templates

\* C16: whenever renderFile invokes a template function, or includeFile
\* returns one, the configuration that goes with it has a non-empty filename,
\* which is the path getPath resolved for the requested file (against the
\* render configuration, or against the including template's configuration)
\* and names a file that exists.
C16_FilenameResolvedBeforeInvoke ==
    /\ (last.op \in FileOps /\ last.invoked)
       => /\ TruthyStr(Prop(last.options, "filename"))
          /\ last.options.filename = GetPath(last.file, Unnamed(last.options)).path
          /\ last.options.filename \in Files
    /\ (last.op = "includeFile" /\ last.ret = "pair")
       => /\ TruthyStr(Prop(last.options, "filename"))
          /\ last.options.filename = GetPath(last.file, last.parent).path
          /\ last.options.filename \in Files

\* a renderFile of a relative name that invoked the function with the
\* resolved path as filename
C16_Witness ==
    /\ last.op = "renderFile" /\ last.file = "a.eta" /\ last.invoked
    /\ last.options.filename = "/views/a.eta"
    /\ last.cbCalls # <<>>

\* C17: includeFile(path, parentConfig) returns a new configuration that is
\* the parent's with the filename replaced by the resolved path of the
\* included file, and the parent's configuration is afterwards what it was
\* before the call, its own filename included; so in a chain of includes
\* every level's configuration names its own file.
C17_IncludeConfigByValue ==
    [][ (last'.op = "includeFile" /\ last'.ret = "pair")
        => /\ last'.options.filename = GetPath(last'.file, last.options).path
           /\ Unnamed(last'.options) = Unnamed(last.options)
           /\ last'.parent = last.options
           /\ Prop(last'.parent, "filename") = Prop(last.options, "filename") ]_vars

\* an include of b.eta issued from the template /views/a.eta: the new
\* configuration names b.eta and the parent's still names a.eta
C17_Witness ==
    /\ last.op = "includeFile" /\ last.ret = "pair" /\ last.file = "b.eta"
    /\ last.options.filename = "/views/b.eta"
    /\ Prop(last.parent, "filename") = "/views/a.eta"

\* the steps a call records, by the stage they belong to: config resolution
\* (with path resolution), cache lookup, compilation (with the file read),
\* registration, invocation
Rank(step) ==
    CASE step \in {"getConfig", "getPath"} -> 1
      [] step = "get" -> 2
      [] step \in {"readFile", "compile"} -> 3
      [] step = "define" -> 4
      [] step = "invoke" -> 5
\* the positions of a trace at which configuration is resolved after a lookup
Late(tr) ==
    {j \in DOMAIN tr : Rank(tr[j]) = 1 /\ \E i \in 1..(j - 1) : tr[i] = "get"}
\* the steps at the positions outside J keep the order of the stages
OrderedOutside(tr, J) ==
    \A i, j \in (DOMAIN tr) \ J : i < j => Rank(tr[i]) <= Rank(tr[j])
Count(tr, step) == Cardinality({i \in DOMAIN tr : tr[i] = step})
\* a call that compiled a function it is to register: caching on, with a key
RegisteringCall(r) ==
    /\ IsFn(r.fn) /\ r.compiles = 1
    /\ IF r.op \in StrOps THEN KeyedStr(r.options) ELSE r.options.cache

CacheKey(r) ==
    IF r.op \in StrOps
    THEN (IF r.options.cache /\ TruthyStr(Prop(r.options, "name"))
          THEN r.options.name ELSE Absent)
    ELSE IF /\ r.op \in FileOps \cup {"includeFile"}
            /\ r.thrown.kind # "ConfigResolution" /\ r.options.cache
    THEN r.options.filename
    ELSE Absent
\* a call whose function was obtained and has been started (or handed to the
\* including template): from here on its template code runs or its result is
\* pending, and further calls can be issued before it completes
InFlight(r) == IsFn(r.fn) /\ (r.invoked \/ r.ret = "pair")
\* a call that registered its function: its key was not registered before
Registered(r) == Count(r.trace, "define") = 1

\* C19 as stated: when a cache-enabled render of an unregistered key is in
\* flight and a second cache-enabled render of the same key is issued before
\* it completes, the second compiles too and the cache ends up with the
\* second's function.
C19_InFlightCompilesTwice ==
    [][ ( /\ CacheKey(last) # Absent /\ InFlight(last) /\ Registered(last)
          /\ CacheKey(last') = CacheKey(last) )
        => ( /\ last'.compiles = 1
             /\ last'.fn # last.fn
             /\ Get(templates', CacheKey(last')) = last'.fn ) ]_vars

\* C19 amended: a call looks up, compiles and registers before it starts the
\* template function, in one step without a suspension point.  So a
\* cache-enabled call of the same key issued while the first is in flight
\* finds the function the first one registered: it reads and compiles
\* nothing, uses that function, and leaves the cache as it is.  An entry is
\* overwritten by a later registration only through a direct loadFile
\* without skipCache, which registers without a lookup.
C19_InFlightSecondHits ==
    [][ /\ ( /\ CacheKey(last) # Absent /\ InFlight(last)
             /\ CacheKey(last') = CacheKey(last) )
           => ( /\ last'.compiles = 0 /\ last'.reads = 0
                /\ last'.fn = last.fn
                /\ serial' = serial
                /\ templates' = templates
                /\ Get(templates, CacheKey(last)) = last.fn )
        /\ (last'.invoked /\ Registered(last'))
           => \E i, j \in DOMAIN last'.trace :
                  /\ i < j /\ last'.trace[i] = "define"
                  /\ last'.trace[j] = "invoke"
        /\ (last'.op = "loadFile" /\ IsFn(last'.fn) /\ ~last'.parent.noCache)
           => Get(templates', last'.file) = last'.fn ]_vars

\* an include of a.eta issued by the template a.eta itself, while its cached
\* renderFile is in flight: it gets the registered function and compiles
\* nothing
C19_Witness ==
    /\ last.op = "includeFile" /\ last.ret = "pair"
    /\ last.options.cache
    /\ last.options.filename = "/views/a.eta"
    /\ Prop(last.parent, "filename") = "/views/a.eta"
    /\ last.compiles = 0 /\ last.fn = templates["/views/a.eta"]
    /\ serial = 1

\* C20: every call of render or renderFile in callback form calls the
\* callback exactly once, whether the render succeeds or fails and whether or
\* not the callback throws when it is handed the result.
C20_CallbackExactlyOnce ==
    (last.op \in {"render", "renderFile"} /\ CallbackForm(last))
    => Len(last.cbCalls) = 1

====
